---- MODULE Spec2Model ----
(***************************************************************************)
(* Transaction signing, verification and header submission of arweave-rs:  *)
(* Arweave (src/src/lib.rs) and ArweaveSigner (src/src/signer.rs).         *)
(*                                                                         *)
(* Byte strings are sequences of integers 0..255.  The crypto provider,    *)
(* the Base64 wrapper and Tx::to_deep_hash_item live in modules of the     *)
(* crate that are not part of the two files; they are modelled from the    *)
(* specification with ideal primitives: a hash is injective (it is         *)
(* represented by its tagged preimage), and a signature verifies exactly   *)
(* when it was made with the private key of the public key over the same   *)
(* message.                                                                *)
(***************************************************************************)
EXTENDS Integers, Sequences, FiniteSets, TLC

VARIABLES
    tx,        \* the transaction record the calls operate on
    signed,    \* what the last sign_transaction produced and with which key
    op,        \* the last operation called
    inst,      \* the key pair held by the instance that ran it
    res,       \* its result
    pre,       \* the transaction as it was when the operation was called
    hashCalls, \* deep_hash evaluations made by the last operation
    pc,        \* position inside post_transaction
    retries,   \* post_transaction: local retries
    status,    \* post_transaction: local status
    attempts,  \* POST /tx requests sent by the current post_transaction call
    responses, \* responses received by the current post_transaction call
    slept,     \* seconds slept by the current post_transaction call
    ret,       \* value carried by Ok of post_transaction
    nSigns,    \* sign_transaction calls so far
    nTampers   \* single-field changes made to the record so far

vars == <<tx, signed, op, inst, res, pre, hashCalls, pc, retries, status,
          attempts, responses, slept, ret, nSigns, nTampers>>

(***************************************************************************)
(* Bounds of the model.                                                    *)
(***************************************************************************)
MaxSigns == 2
MaxTampers == 1

(***************************************************************************)
(* Program constants.                                                      *)
(***************************************************************************)
CHUNKS_RETRIES == 10
CHUNKS_RETRY_SLEEP == 1
StatusOK == 200
StatusNotFound == 404

\* Status codes a response to POST /tx can carry: 200, another 2xx, an error.
Statuses == {200, 202, 503}

Keys == {1, 2}
Salts == {0, 1}

(***************************************************************************)
(* Bytes and encodings.                                                    *)
(***************************************************************************)
RECURSIVE DecimalBytes(_)
\* u64::to_string().as_bytes(): the ASCII decimal digits of n
DecimalBytes(n) ==
    IF n < 10 THEN <<48 + n>>
    ELSE DecimalBytes(n \div 10) \o <<48 + (n % 10)>>

\* The base64url alphabet: A-Z a-z 0-9 - _
B64Char(i) ==
    IF i < 26 THEN 65 + i
    ELSE IF i < 52 THEN 97 + (i - 26)
    ELSE IF i < 62 THEN 48 + (i - 52)
    ELSE IF i = 62 THEN 45
    ELSE 95

\* Byte i of b, 0 past its end
ByteAt(b, i) == IF i <= Len(b) THEN b[i] ELSE 0

\* The i-th 6-bit group of the bits of b
Sextet(b, i) ==
    LET g == (i - 1) \div 4
        j == (i - 1) % 4
        b1 == ByteAt(b, 3 * g + 1)
        b2 == ByteAt(b, 3 * g + 2)
        b3 == ByteAt(b, 3 * g + 3)
    IN  CASE j = 0 -> b1 \div 4
          [] j = 1 -> (b1 % 4) * 16 + (b2 \div 16)
          [] j = 2 -> (b2 % 16) * 4 + (b3 \div 64)
          [] OTHER -> b3 % 64

\* Display for Base64: base64url without padding of the wrapped bytes, as the
\* bytes of the resulting text
Base64_to_string(b) ==
    [i \in 1..((Len(b) * 4 + 2) \div 3) |-> B64Char(Sextet(b, i))]

Base64_is_empty(b) == Len(b) = 0

(***************************************************************************)
(* Ideal hash functions: injective, never empty, and distinct from each    *)
(* other.                                                                  *)
(***************************************************************************)
Sha384(m) == <<84>> \o m
hash_sha256(m) == <<56>> \o m

Blob(b) == [kind |-> "blob", v |-> b]
List(l) == [kind |-> "list", v |-> l]

RECURSIVE deep_hash(_)
RECURSIVE deep_hash_fold(_, _, _)
\* acc = H(acc || deep_hash(element)) for the elements from i on
deep_hash_fold(acc, l, i) ==
    IF i > Len(l) THEN acc
    ELSE deep_hash_fold(Sha384(acc \o deep_hash(l[i])), l, i + 1)

\* leaf: H("blob" || decimal length || bytes); sequence: the fold started from
\* H("list" || decimal count)
deep_hash(item) ==
    IF item.kind = "blob"
    THEN Sha384(<<98, 108, 111, 98>> \o DecimalBytes(Len(item.v)) \o item.v)
    ELSE deep_hash_fold(Sha384(<<108, 105, 115, 116>> \o DecimalBytes(Len(item.v))),
                        item.v, 1)

TagItem(t) == List(<<Blob(t.name), Blob(t.value)>>)

\* The signable content: format, owner, target, quantity, fee, last_tx, the
\* tags as a sequence of pairs, data_size, data_root, in this order.
to_deep_hash_item(t) ==
    List(<<Blob(DecimalBytes(t.format)),
           Blob(t.owner),
           Blob(t.target),
           Blob(DecimalBytes(t.quantity)),
           Blob(DecimalBytes(t.reward)),
           Blob(t.last_tx),
           List([i \in 1..Len(t.tags) |-> TagItem(t.tags[i])]),
           Blob(DecimalBytes(t.data_size)),
           Blob(t.data_root)>>)

(***************************************************************************)
(* RSA-PSS over SHA-256, ideal.                                            *)
(***************************************************************************)
\* Raw modulus bytes of key pair k (the owner field of its transactions)
keypair_modulus(k) == <<193, 16 * k + 1>>

\* DER public key from a raw modulus with the fixed public exponent 65537
PublicKeyFromModulus(n) == <<48>> \o n \o <<1, 0, 1>>

public_key(k) == PublicKeyFromModulus(keypair_modulus(k))

\* The signature key pair k makes over message m with PSS salt s
Provider_sign(k, m, s) == <<k, s>> \o hash_sha256(m)

\* Whether sig is a signature over m made by the key pair of public key pub
RsaPssVerify(pub, m, sig) ==
    \E k \in Keys :
        /\ pub = public_key(k)
        /\ Len(sig) >= 2
        /\ sig[1] = k
        /\ SubSeq(sig, 3, Len(sig)) = hash_sha256(m)

\* Provider::verify(signature, message) of the provider holding key pair k
Provider_verify(k, sig, m) == RsaPssVerify(public_key(k), m, sig)

(***************************************************************************)
(* Transactions.                                                           *)
(***************************************************************************)
Tags0 == <<[name |-> <<65>>, value |-> <<84>>], [name |-> <<66>>, value |-> <<84>>]>>

\* An unsigned format-2 transaction created for the holder of key pair k
NewTx(k) ==
    [format |-> 2, id |-> <<>>, last_tx |-> <<7>>, owner |-> keypair_modulus(k),
     tags |-> Tags0, target |-> <<>>, quantity |-> 0, data_root |-> <<>>,
     data |-> <<>>, data_size |-> 0, reward |-> 5, signature |-> <<>>]

Init ==
    /\ tx \in {NewTx(k) : k \in Keys}
    /\ signed = [tx |-> tx, key |-> 0]
    /\ op = "none"
    /\ inst = 0
    /\ res = "none"
    /\ pre = tx
    /\ hashCalls = 0
    /\ pc = "idle"
    /\ retries = 0
    /\ status = StatusNotFound
    /\ attempts = 0
    /\ responses = 0
    /\ slept = 0
    /\ ret = <<>>
    /\ nSigns = 0
    /\ nTampers = 0

(***************************************************************************)
(* sign_transaction and verify_transaction, as functions of their inputs.  *)
(* k is the key pair the instance holds, s the PSS salt the signer draws.  *)
(***************************************************************************)
\* Variant: the signature is set and the id is left as it was
Arweave_sign_transaction_NoId(k, t, s) ==
    LET signature == Provider_sign(k, deep_hash(to_deep_hash_item(t)), s)
    IN  [res |-> "Ok", tx |-> [t EXCEPT !.signature = signature], hashCalls |-> 1]

Arweave_sign_transaction(k, t, s) ==
    LET deep_hash_item == to_deep_hash_item(t)
        signature_data == deep_hash(deep_hash_item)
        signature == Provider_sign(k, signature_data, s)
        id == hash_sha256(signature)
    IN  [res |-> "Ok",
         tx |-> [t EXCEPT !.signature = signature, !.id = id],
         hashCalls |-> 1]

\* Variant: a transaction that carries a signature is rejected
ArweaveSigner_sign_transaction_RejectSigned(k, t, s) ==
    IF Len(t.signature) # 0
    THEN [res |-> "AlreadySigned", tx |-> t, hashCalls |-> 0]
    ELSE LET signature == Provider_sign(k, deep_hash(to_deep_hash_item(t)), s)
         IN  [res |-> "Ok",
              tx |-> [t EXCEPT !.signature = signature,
                               !.id = hash_sha256(signature)],
              hashCalls |-> 1]

ArweaveSigner_sign_transaction(k, t, s) ==
    LET deep_hash_item == to_deep_hash_item(t)
        signature_data == deep_hash(deep_hash_item)
        signature == Provider_sign(k, signature_data, s)
        id == hash_sha256(signature)
    IN  [res |-> "Ok",
         tx |-> [t EXCEPT !.signature = signature, !.id = id],
         hashCalls |-> 1]

\* Variant: no check for an empty signature
Arweave_verify_transaction_NoEmptyCheck(k, t) ==
    [res |-> IF Provider_verify(k, Base64_to_string(t.signature),
                                deep_hash(to_deep_hash_item(t)))
             THEN "Ok" ELSE "InvalidSignature",
     hashCalls |-> 1]

Arweave_verify_transaction(k, t) ==
    IF Base64_is_empty(t.signature)
    THEN [res |-> "UnsignedTransaction", hashCalls |-> 0]
    ELSE LET deep_hash_item == to_deep_hash_item(t)
             data_to_sign == deep_hash(deep_hash_item)
             sig_bytes == Base64_to_string(t.signature)
         IN  [res |-> IF Provider_verify(k, sig_bytes, data_to_sign)
                      THEN "Ok" ELSE "InvalidSignature",
              hashCalls |-> 1]

\* Variant: the outcome of the signature check is dropped
ArweaveSigner_verify_transaction_NoCheck(t) ==
    IF Base64_is_empty(t.signature)
    THEN [res |-> "UnsignedTransaction", hashCalls |-> 0]
    ELSE [res |-> "Ok", hashCalls |-> 1]

ArweaveSigner_verify_transaction(t) ==
    IF Base64_is_empty(t.signature)
    THEN [res |-> "UnsignedTransaction", hashCalls |-> 0]
    ELSE LET deep_hash_item == to_deep_hash_item(t)
             message == deep_hash(deep_hash_item)
             pub_key == PublicKeyFromModulus(t.owner)
         IN  [res |-> IF RsaPssVerify(pub_key, message, t.signature)
                      THEN "Ok" ELSE "InvalidSignature",
              hashCalls |-> 1]

\* ArweaveSigner::verify(pub_key, message, signature)
ArweaveSigner_verify(pub_key, message, signature) ==
    IF RsaPssVerify(pub_key, message, signature) THEN "Ok" ELSE "InvalidSignature"

\* ArweaveSigner::sign(message) of the signer holding key pair k
ArweaveSigner_sign(k, message, s) == Provider_sign(k, message, s)

\* Messages test_sign_verify is run on
Messages == {<<74, 15, 74>>}

(***************************************************************************)
(* The calls.  A call other than post_transaction runs to completion in    *)
(* one step; post_transaction borrows the transaction for its duration,    *)
(* so nothing else touches the transaction while it is in its loop.        *)
(***************************************************************************)
Quiet == pc = "idle"

postLocals == <<pc, retries, status, attempts, responses, slept>>

PostLocalsDropped ==
    /\ pc' = "idle"
    /\ retries' = 0
    /\ status' = StatusNotFound
    /\ attempts' = 0
    /\ responses' = 0
    /\ slept' = 0

Call_Arweave_sign_transaction(k, s) ==
    /\ Quiet
    /\ nSigns < MaxSigns
    /\ LET r == Arweave_sign_transaction(k, tx, s)
       IN  /\ tx' = r.tx
           /\ res' = r.res
           /\ hashCalls' = r.hashCalls
           /\ signed' = [tx |-> r.tx, key |-> k]
    /\ op' = "Arweave::sign_transaction"
    /\ inst' = k
    /\ pre' = tx
    /\ nSigns' = nSigns + 1
    /\ ret' = <<>>
    /\ UNCHANGED postLocals
    /\ UNCHANGED nTampers

Call_ArweaveSigner_sign_transaction(k, s) ==
    /\ Quiet
    /\ nSigns < MaxSigns
    /\ LET r == ArweaveSigner_sign_transaction(k, tx, s)
       IN  /\ tx' = r.tx
           /\ res' = r.res
           /\ hashCalls' = r.hashCalls
           /\ signed' = [tx |-> r.tx, key |-> k]
    /\ op' = "ArweaveSigner::sign_transaction"
    /\ inst' = k
    /\ pre' = tx
    /\ nSigns' = nSigns + 1
    /\ ret' = <<>>
    /\ UNCHANGED postLocals
    /\ UNCHANGED nTampers

Call_Arweave_verify_transaction(k) ==
    /\ Quiet
    /\ LET r == Arweave_verify_transaction(k, tx)
       IN  /\ res' = r.res
           /\ hashCalls' = r.hashCalls
    /\ op' = "Arweave::verify_transaction"
    /\ inst' = k
    /\ pre' = tx
    /\ ret' = <<>>
    /\ UNCHANGED postLocals
    /\ UNCHANGED <<tx, signed, nSigns, nTampers>>

Call_ArweaveSigner_verify_transaction ==
    /\ Quiet
    /\ LET r == ArweaveSigner_verify_transaction(tx)
       IN  /\ res' = r.res
           /\ hashCalls' = r.hashCalls
    /\ op' = "ArweaveSigner::verify_transaction"
    /\ inst' = 0
    /\ pre' = tx
    /\ ret' = <<>>
    /\ UNCHANGED postLocals
    /\ UNCHANGED <<tx, signed, nSigns, nTampers>>

\* tests::test_sign_verify with the default signer holding key pair k
test_sign_verify(k, message, s) ==
    /\ Quiet
    /\ LET signature == ArweaveSigner_sign(k, message, s)
           pubk == public_key(k)
       IN  res' = ArweaveSigner_verify(pubk, message, signature)
    /\ op' = "test_sign_verify"
    /\ inst' = k
    /\ pre' = tx
    /\ hashCalls' = 0
    /\ ret' = <<>>
    /\ UNCHANGED postLocals
    /\ UNCHANGED <<tx, signed, nSigns, nTampers>>

(***************************************************************************)
(* The holder of the transaction record changing one field of it: field    *)
(* population before the first signing, tampering after it.                *)
(***************************************************************************)
OtherTarget(v) == IF v = <<>> THEN <<9>> ELSE <<>>
OtherAmount(v) == IF v = 0 THEN 1 ELSE 0
OtherReward(v) == IF v = 5 THEN 12 ELSE 5
OtherValue(v) == IF v = <<84>> THEN <<85>> ELSE <<84>>

Mutations(t) ==
    {[t EXCEPT !.quantity = OtherAmount(t.quantity)],
     [t EXCEPT !.reward = OtherReward(t.reward)],
     [t EXCEPT !.target = OtherTarget(t.target)],
     [t EXCEPT !.data_size = OtherAmount(t.data_size)]}
    \cup {[t EXCEPT !.tags[i].value = OtherValue(t.tags[i].value)] :
             i \in 1..Len(t.tags)}

Tamper(t2) ==
    /\ Quiet
    /\ nTampers < MaxTampers
    /\ t2 \in Mutations(tx)
    /\ tx' = t2
    /\ nTampers' = nTampers + 1
    /\ op' = "tamper"
    /\ inst' = 0
    /\ res' = "none"
    /\ pre' = tx
    /\ hashCalls' = 0
    /\ ret' = <<>>
    /\ UNCHANGED postLocals
    /\ UNCHANGED <<signed, nSigns>>

(***************************************************************************)
(* post_transaction: the sequential retry loop.  Its suspension points     *)
(* are the send and the sleep.                                             *)
(***************************************************************************)
\* Variant: the id is never found empty
IdIsEmpty_Never(t) == FALSE

\* signed_transaction.id.0.is_empty()
IdIsEmpty(t) == Len(t.id) = 0

\* Variant: one retry too many
LoopCondition_OffByOne(r, st) == (r <= CHUNKS_RETRIES) /\ (st # StatusOK)

\* The loop condition
LoopCondition(r, st) == (r < CHUNKS_RETRIES) /\ (st # StatusOK)

\* Variant: the quantity in place of the reward
OkValue_Quantity(t) == <<t.id, t.quantity>>

\* The value of Ok
OkValue(t) == <<t.id, t.reward>>

\* The call: the check of the id, then the locals
post_transaction_call ==
    /\ Quiet
    /\ op' = "Arweave::post_transaction"
    /\ inst' = 0
    /\ pre' = tx
    /\ hashCalls' = 0
    /\ retries' = 0
    /\ status' = StatusNotFound
    /\ attempts' = 0
    /\ responses' = 0
    /\ slept' = 0
    /\ ret' = <<>>
    /\ IF IdIsEmpty(tx)
       THEN /\ res' = "UnsignedTransaction"
            /\ pc' = "done"
       ELSE /\ res' = "pending"
            /\ pc' = "loop"
    /\ UNCHANGED <<tx, signed, nSigns, nTampers>>

\* The loop condition is evaluated: another attempt, or the loop ends and
\* the call returns Err(StatusCodeNotOk)
post_transaction_loop ==
    /\ pc = "loop"
    /\ IF LoopCondition(retries, status)
       THEN /\ pc' = "send"
            /\ UNCHANGED res
       ELSE /\ pc' = "done"
            /\ res' = "StatusCodeNotOk"
    /\ UNCHANGED <<tx, signed, op, inst, pre, hashCalls, retries, status,
                   attempts, responses, slept, ret, nSigns, nTampers>>

\* The request is sent and a response with status code st comes back
post_transaction_response(st) ==
    /\ pc = "send"
    /\ attempts' = attempts + 1
    /\ responses' = responses + 1
    /\ status' = st
    /\ IF st = StatusOK
       THEN /\ res' = "Ok"
            /\ ret' = OkValue(tx)
            /\ pc' = "done"
       ELSE /\ pc' = "sleep"
            /\ UNCHANGED <<res, ret>>
    /\ UNCHANGED <<tx, signed, op, inst, pre, hashCalls, retries, slept,
                   nSigns, nTampers>>

\* The request is sent and send() returns Err: expect() panics
post_transaction_send_error ==
    /\ pc = "send"
    /\ attempts' = attempts + 1
    /\ res' = "Panic"
    /\ pc' = "done"
    /\ UNCHANGED <<tx, signed, op, inst, pre, hashCalls, retries, status,
                   responses, slept, ret, nSigns, nTampers>>

\* sleep(CHUNKS_RETRY_SLEEP) completes, then retries += 1
post_transaction_sleep ==
    /\ pc = "sleep"
    /\ slept' = slept + CHUNKS_RETRY_SLEEP
    /\ retries' = retries + 1
    /\ pc' = "loop"
    /\ UNCHANGED <<tx, signed, op, inst, res, pre, hashCalls, status,
                   attempts, responses, ret, nSigns, nTampers>>

\* The call is over: its locals are dropped, its result stays with the caller
post_transaction_return ==
    /\ pc = "done"
    /\ PostLocalsDropped
    /\ UNCHANGED <<tx, signed, op, inst, res, pre, hashCalls, ret, nSigns, nTampers>>

Next ==
    \/ \E k \in Keys, s \in Salts : Call_Arweave_sign_transaction(k, s)
    \/ \E k \in Keys, s \in Salts : Call_ArweaveSigner_sign_transaction(k, s)
    \/ \E k \in Keys : Call_Arweave_verify_transaction(k)
    \/ Call_ArweaveSigner_verify_transaction
    \/ \E k \in Keys, m \in Messages, s \in Salts : test_sign_verify(k, m, s)
    \/ \E t2 \in Mutations(tx) : Tamper(t2)
    \/ post_transaction_call
    \/ post_transaction_loop
    \/ \E st \in Statuses : post_transaction_response(st)
    \/ post_transaction_send_error
    \/ post_transaction_sleep
    \/ post_transaction_return

Spec == Init /\ [][Next]_vars

(***************************************************************************)
(* Properties.                                                             *)
(***************************************************************************)
InPost == op = "Arweave::post_transaction"
VerifyOps == {"Arweave::verify_transaction", "ArweaveSigner::verify_transaction"}
SignOps == {"Arweave::sign_transaction", "ArweaveSigner::sign_transaction"}

\* The transaction is as the last sign_transaction returned it
AsSigned == signed.key # 0 /\ tx = signed.tx

\* The signature the transaction carries was made by the owner's key pair
\* over the transaction's signable content
SignedByOwner(t) ==
    RsaPssVerify(PublicKeyFromModulus(t.owner), deep_hash(to_deep_hash_item(t)),
                 t.signature)

\* C1: when every POST /tx of a call on a transaction with non-empty id is
\* answered with a non-success status, the call returns Err(StatusCodeNotOk)
\* after exactly CHUNKS_RETRIES attempts, never more, and CHUNKS_RETRY_SLEEP
\* seconds are slept between every two consecutive attempts (before attempt
\* n+1 the call has slept n times).
C1_RetryExhaustion ==
    (InPost /\ Len(pre.id) # 0) =>
        /\ attempts <= CHUNKS_RETRIES
        /\ (pc \in {"loop", "send"} =>
               (attempts = retries /\ slept = attempts * CHUNKS_RETRY_SLEEP))
        /\ (pc = "sleep" =>
               (attempts = retries + 1 /\ slept = retries * CHUNKS_RETRY_SLEEP))
        /\ (pc = "done" /\ responses = attempts /\ status # StatusOK) =>
               /\ res = "StatusCodeNotOk"
               /\ attempts = CHUNKS_RETRIES
               /\ slept = CHUNKS_RETRIES * CHUNKS_RETRY_SLEEP
        /\ (pc = "done" /\ res = "StatusCodeNotOk") =>
               /\ attempts = CHUNKS_RETRIES
               /\ responses = attempts
               /\ status # StatusOK

C1_Witness ==
    /\ InPost
    /\ Len(pre.id) # 0
    /\ pc = "done"
    /\ res = "StatusCodeNotOk"
    /\ attempts = CHUNKS_RETRIES
    /\ responses = CHUNKS_RETRIES

\* C2: post_transaction on a transaction with an empty id returns
\* Err(UnsignedTransaction) in the step of the call: no request is sent,
\* nothing is slept and retries is never advanced.
C2_UnsignedRejected ==
    (InPost /\ Len(pre.id) = 0) =>
        /\ res = "UnsignedTransaction"
        /\ pc \in {"done", "idle"}
        /\ attempts = 0
        /\ responses = 0
        /\ slept = 0
        /\ retries = 0

C2_Witness ==
    /\ InPost
    /\ Len(pre.id) = 0
    /\ pc = "done"
    /\ res = "UnsignedTransaction"

\* C3: whatever the gateway responds, a post_transaction call on a signed
\* transaction ends in exactly one of Ok((id, reward)) of the submitted
\* transaction, directly after the first success response, and
\* Err(StatusCodeNotOk), after the retry bound is exhausted; while the call
\* is still in its loop no success response has been received.
C3_OneTerminalOutcome ==
    (InPost /\ Len(pre.id) # 0) =>
        /\ (pc \in {"loop", "send", "sleep"}) =>
               (res = "pending" /\ status # StatusOK /\ ret = <<>>)
        /\ (pc = "done" /\ responses = attempts) =>
               res \in {"Ok", "StatusCodeNotOk"}
        /\ (pc = "done" /\ status = StatusOK) => res = "Ok"
        /\ (pc \in {"done", "idle"} /\ res = "Ok") =>
               (ret = <<pre.id, pre.reward>> /\ tx = pre)
        /\ (pc = "done" /\ res = "Ok") => status = StatusOK
        /\ (pc = "done" /\ res = "StatusCodeNotOk") =>
               (retries = CHUNKS_RETRIES /\ status # StatusOK /\ ret = <<>>)

C3_Witness ==
    /\ InPost
    /\ Len(pre.id) # 0
    /\ pc = "done"
    /\ res = "Ok"
    /\ attempts > 1
    /\ ret = <<tx.id, tx.reward>>

\* C4: a failed POST /tx attempt, a non-2xx response or a connection error,
\* never ends the call: a call on a signed transaction that does not end in
\* Ok ends in Err(StatusCodeNotOk), after CHUNKS_RETRIES attempts.
C4_OnlyExhaustionSurfaces ==
    (InPost /\ Len(pre.id) # 0 /\ pc = "done" /\ res # "Ok") =>
        (res = "StatusCodeNotOk" /\ attempts = CHUNKS_RETRIES)

\* C5: verify_transaction of either implementation returns Ok on what
\* sign_transaction returned for a transaction owned by the signing key pair
\* (for Arweave, the instance holding that key pair), and
\* verify(public_key, m, sign(m)) returns Ok.
C5_SignVerifyRoundTrip ==
    /\ (op \in VerifyOps /\ AsSigned /\ tx.owner = keypair_modulus(signed.key)
          /\ (op = "Arweave::verify_transaction" => inst = signed.key))
           => res = "Ok"
    /\ op = "test_sign_verify" => res = "Ok"

\* The part of C5 that is about ArweaveSigner alone.
SignerRoundTrip ==
    /\ (op = "ArweaveSigner::verify_transaction" /\ AsSigned
          /\ tx.owner = keypair_modulus(signed.key)) => res = "Ok"
    /\ op = "test_sign_verify" => res = "Ok"

\* Exactly one of quantity, reward, target, data_size and one tag differs
\* between a and b, and nothing else does.
TagsChanged(a, b) ==
    IF Len(a.tags) # Len(b.tags) THEN 2
    ELSE Cardinality({i \in 1..Len(a.tags) : a.tags[i] # b.tags[i]})

SingleFieldChanged(a, b) ==
    /\ [b EXCEPT !.quantity = a.quantity, !.reward = a.reward,
                 !.target = a.target, !.data_size = a.data_size,
                 !.tags = a.tags] = a
    /\ (IF a.quantity # b.quantity THEN 1 ELSE 0)
       + (IF a.reward # b.reward THEN 1 ELSE 0)
       + (IF a.target # b.target THEN 1 ELSE 0)
       + (IF a.data_size # b.data_size THEN 1 ELSE 0)
       + TagsChanged(a, b) = 1

\* C6: verify_transaction of either implementation returns
\* Err(InvalidSignature) on a signed transaction of which exactly one of
\* quantity, fee, one tag, target and data_size was changed after signing.
C6_TamperDetected ==
    (op \in VerifyOps /\ signed.key # 0 /\ SingleFieldChanged(signed.tx, tx))
        => res = "InvalidSignature"

C6_Witness ==
    /\ op = "ArweaveSigner::verify_transaction"
    /\ signed.key # 0
    /\ signed.tx.owner = keypair_modulus(signed.key)
    /\ SingleFieldChanged(signed.tx, tx)
    /\ signed.tx.data_size # tx.data_size
    /\ res = "InvalidSignature"

\* C7: the outcome of verify_transaction on a transaction that carries a
\* signature is decided by the transaction alone: it is Ok exactly when the
\* signature was made by the key pair of the owner field, whatever key pair
\* the verifying instance holds.
C7_OwnerKeyDecides ==
    (op \in VerifyOps /\ Len(tx.signature) # 0) =>
        (res = "Ok" <=> SignedByOwner(tx))

\* The part of C7 that is about ArweaveSigner alone.
SignerOwnerKeyDecides ==
    (op = "ArweaveSigner::verify_transaction" /\ Len(tx.signature) # 0) =>
        (res = "Ok" <=> SignedByOwner(tx))

\* C8: id and signature are both empty or both non-empty in every state, and
\* a non-empty id is the SHA-256 of the signature.
C8_IdWithSignature ==
    /\ (Len(tx.id) = 0) <=> (Len(tx.signature) = 0)
    /\ Len(tx.signature) # 0 => tx.id = hash_sha256(tx.signature)

C8_Witness ==
    /\ op \in SignOps
    /\ Len(pre.id) = 0
    /\ Len(pre.signature) = 0
    /\ Len(tx.id) # 0
    /\ Len(tx.signature) # 0

\* C9: verify_transaction on a transaction with an empty signature returns
\* Err(UnsignedTransaction) without having hashed anything, in both
\* implementations, and verify_transaction leaves the transaction as it was
\* on every path.
C9_VerifyUnsigned ==
    op \in VerifyOps =>
        /\ tx = pre
        /\ Len(pre.signature) = 0 =>
               (res = "UnsignedTransaction" /\ hashCalls = 0)

C9_Witness ==
    /\ op = "Arweave::verify_transaction"
    /\ Len(pre.signature) = 0
    /\ res = "UnsignedTransaction"

\* C10: sign_transaction on a transaction that carries a signature returns
\* Ok; signature is the new signature of the signing key pair over the
\* signable content, id is its SHA-256, and every other field is the input's.
C10_ResignOverwrites ==
    (op \in SignOps /\ Len(pre.signature) # 0) =>
        /\ res = "Ok"
        /\ Provider_verify(inst, tx.signature, deep_hash(to_deep_hash_item(pre)))
        /\ tx.id = hash_sha256(tx.signature)
        /\ [tx EXCEPT !.signature = <<>>, !.id = <<>>]
             = [pre EXCEPT !.signature = <<>>, !.id = <<>>]

C10_Witness ==
    /\ op = "ArweaveSigner::sign_transaction"
    /\ Len(pre.signature) # 0
    /\ tx.signature # pre.signature
    /\ tx.id # pre.id
    /\ res = "Ok"

====
